---- MODULE Spec2Model ----
(***************************************************************************)
(* Model of src/irc/reply.go: NumericReply rendering and the NAMES reply   *)
(* (NamesReply.Format), which splits a channel's nick list over several    *)
(* RPL_NAMREPLY lines and ends with RPL_ENDOFNAMES.                        *)
(*                                                                         *)
(* A string is modelled by what the code reads of it: its byte length.  A  *)
(* nick is a client name together with NickLen; a rendered line is a       *)
(* record of its numeric code, the names it carries and its byte length.   *)
(***************************************************************************)
EXTENDS Integers, Sequences, FiniteSets, TLC

\* ------------------------------------------------------------------ sizes

MAX_REPLY_LEN == 510

\* %03d of a three-digit numeric (353, 366)
CodeWidth == 3

\* len(channel.server.Id()) and len(channel.name) of the modelled channel
ServerIdLen == 4
ChanNameLen == 2

\* Bytes of a names line that belong neither to the recipient's nick nor to
\* the names: ":" sid " " ddd " " nick " " "= " chan " :"
FrameLen == 1 + ServerIdLen + 1 + CodeWidth + 1 + 1 + 2 + ChanNameLen + 2

\* Room for nick-of-recipient plus names in one line
Room == MAX_REPLY_LEN - FrameLen

\* The clients of the server.  Their nick lengths sit on the edges of the
\* budget: for recipient "a" the names budget is Room - 1, which "c" fills
\* alone and "a b" fill together, while "d a" is one byte too long; for
\* recipients "b", "d" and "c" the budget is 3, 2 and 1, so "b", "c" and "d"
\* are longer than a whole line allows.
Clients == {"a", "b", "c", "d"}

NickLen(c) ==
    CASE c = "a" -> 1
      [] c = "b" -> Room - 3
      [] c = "c" -> Room - 1
      [] c = "d" -> Room - 2

\* The clients that join and part the channel while a reply is in flight
Joiners == {"a", "b", "c"}

\* ------------------------------------------------------------------ state

VARIABLES
    members,      \* channel.members, in the order Nicks() lists them
    reply,        \* whether NewNamesReply has built the reply
    atConstruct,  \* history: members when NewNamesReply ran
    client,       \* Format's client argument
    pc,           \* position of the Format call
    baseLen,      \* Format's baseLen
    start,        \* Format's start
    i,            \* Format's loop index
    nicks,        \* Format's nicks
    write,        \* lines sent on Format's write channel by the current call
    flushed,      \* history: the current call sent the final RplNamReply
    atRead,       \* history: members when the current call read Nicks()
    prev          \* history: the last delivered call, or NoCall

vars == <<members, reply, atConstruct, client, pc, baseLen, start, i, nicks,
          write, flushed, atRead, prev>>

callVars == <<client, pc, baseLen, start, i, nicks, write, flushed, atRead>>

NoCall == [client |-> "", nicks |-> <<>>, lines |-> <<>>]

\* ------------------------------------------------------------------ helpers

\* Go's s[lo:hi] on a 0-based slice
Slice(s, lo, hi) == SubSeq(s, lo + 1, hi)

RECURSIVE SumLen(_)
SumLen(names) ==
    IF names = <<>> THEN 0 ELSE NickLen(Head(names)) + SumLen(Tail(names))

\* joinedLen: len(names) - 1 separators plus the names (-1 for no names)
joinedLen(names) == (Len(names) - 1) + SumLen(names)

\* len(strings.Join(names, " "))
JoinLen(names) == IF names = <<>> THEN 0 ELSE (Len(names) - 1) + SumLen(names)

\* len of NumericReply.FormatString: ":%s %03d %s %s"
FormatStringLen(sourceLen, c, messageLen) ==
    1 + sourceLen + 1 + CodeWidth + 1 + NickLen(c) + 1 + messageLen

\* RplNamReply rendered for client c: message is "= %s :%s"
RplNamReply(c, names) ==
    [code  |-> "RPL_NAMREPLY",
     names |-> names,
     len   |-> FormatStringLen(ServerIdLen, c, 2 + ChanNameLen + 2 + JoinLen(names))]

\* len(":End of NAMES list")
EndOfNamesLen == 18

\* RplEndOfNames rendered for client c; its source is the channel
RplEndOfNames(c) ==
    [code  |-> "RPL_ENDOFNAMES",
     names |-> <<>>,
     len   |-> FormatStringLen(ChanNameLen, c, EndOfNamesLen)]

\* channel.Nicks(): the nicks of the current members
Nicks == members

tooLong_GE(bl, names) == (bl + joinedLen(names)) >= MAX_REPLY_LEN

\* the closure tooLong of Format
tooLong(bl, names) == (bl + joinedLen(names)) > MAX_REPLY_LEN

NextStart_Here(k) == k

\* start = i - 1
NextStart(k) == k - 1

GroupEnd_Short(k) == IF k - 2 < 0 THEN 0 ELSE k - 2

\* the upper index of nicks[start:i-1]
GroupEnd(k) == k - 1

NextIndex_Skip(k) == k + 2

\* the range loop's next index
NextIndex(k) == k + 1

\* the guard of the final RplNamReply
FlushCond(s, n) == s < (n - 1)

\* ------------------------------------------------------------------ actions

Init ==
    /\ members = <<>>
    /\ reply = FALSE
    /\ atConstruct = <<>>
    /\ client = ""
    /\ pc = "idle"
    /\ baseLen = 0
    /\ start = 0
    /\ i = 0
    /\ nicks = <<>>
    /\ write = <<>>
    /\ flushed = FALSE
    /\ atRead = <<>>
    /\ prev = NoCall

InChannel(c) == \E k \in 1..Len(members) : members[k] = c

\* a client joins the channel
Join(c) ==
    /\ ~InChannel(c)
    /\ members' = Append(members, c)
    /\ UNCHANGED <<reply, atConstruct, callVars, prev>>

\* a member parts
Part(c) ==
    /\ InChannel(c)
    /\ members' = SelectSeq(members, LAMBDA m : m # c)
    /\ UNCHANGED <<reply, atConstruct, callVars, prev>>

\* NewNamesReply(channel): stores the channel, not its members
NewNamesReply ==
    /\ ~reply
    /\ reply' = TRUE
    /\ atConstruct' = members
    /\ UNCHANGED <<members, callVars, prev>>

\* Format, up to the loop: baseLen, start and nicks
FormatBegin(c) ==
    /\ reply
    /\ pc \in {"idle", "done"}
    /\ client' = c
    /\ baseLen' = RplNamReply(c, <<>>).len
    /\ start' = 0
    /\ nicks' = Nicks
    /\ atRead' = members
    /\ i' = 0
    /\ write' = <<>>
    /\ flushed' = FALSE
    /\ pc' = "loop"
    /\ UNCHANGED <<members, reply, atConstruct, prev>>

Scan_Reread ==
    /\ pc = "loop"
    /\ i < Len(nicks)
    /\ nicks' = Nicks
    /\ IF (i > start) /\ tooLong(baseLen, Slice(nicks, start, i))
       THEN /\ write' = Append(write, RplNamReply(client, Slice(nicks, start, GroupEnd(i))))
            /\ start' = NextStart(i)
       ELSE UNCHANGED <<write, start>>
    /\ i' = NextIndex(i)
    /\ UNCHANGED <<members, reply, atConstruct, client, pc, baseLen, flushed, atRead, prev>>

\* one iteration of the loop over nicks
Scan ==
    /\ pc = "loop"
    /\ i < Len(nicks)
    /\ IF (i > start) /\ tooLong(baseLen, Slice(nicks, start, i))
       THEN /\ write' = Append(write, RplNamReply(client, Slice(nicks, start, GroupEnd(i))))
            /\ start' = NextStart(i)
       ELSE UNCHANGED <<write, start>>
    /\ i' = NextIndex(i)
    /\ UNCHANGED <<members, reply, atConstruct, client, pc, baseLen, nicks, flushed, atRead, prev>>

\* the loop is over: the final RplNamReply, if start < len(nicks) - 1
Flush ==
    /\ pc = "loop"
    /\ i >= Len(nicks)
    /\ IF FlushCond(start, Len(nicks))
       THEN /\ write' = Append(write, RplNamReply(client, Slice(nicks, start, Len(nicks))))
            /\ flushed' = TRUE
       ELSE UNCHANGED <<write, flushed>>
    /\ pc' = "end"
    /\ UNCHANGED <<members, reply, atConstruct, client, baseLen, start, i, nicks, atRead, prev>>

EndOfNames_IfAny ==
    /\ pc = "end"
    /\ IF nicks # <<>>
       THEN write' = Append(write, RplEndOfNames(client))
       ELSE UNCHANGED write
    /\ pc' = "done"
    /\ UNCHANGED <<members, reply, atConstruct, client, baseLen, start, i, nicks, flushed, atRead, prev>>

\* RplEndOfNames(reply.channel).Format(client, write)
EndOfNames ==
    /\ pc = "end"
    /\ write' = Append(write, RplEndOfNames(client))
    /\ pc' = "done"
    /\ UNCHANGED <<members, reply, atConstruct, client, baseLen, start, i, nicks, flushed, atRead, prev>>

FormatStep == Scan \/ Flush \/ EndOfNames

Next ==
    \/ \E c \in Joiners : Join(c)
    \/ \E c \in Joiners : Part(c)
    \/ NewNamesReply
    \/ \E c \in Clients : FormatBegin(c)
    \/ Scan
    \/ Flush
    \/ EndOfNames

Spec == Init /\ [][Next]_vars

\* Format is straight-line code over a finite slice: once called it runs on
FairSpec == Spec /\ WF_vars(FormatStep)

\* ------------------------------------------------------------------ two recipients

\* every order of every set of clients: the member lists a channel can have
RECURSIVE Orders(_)
Orders(S) ==
    IF S = {} THEN {<<>>}
    ELSE UNION {{<<c>> \o t : t \in Orders(S \ {c})} : c \in S}

MemberLists == UNION {Orders(S) : S \in SUBSET Clients}

\* a names reply already built for a channel whose membership then stays put
InitBuilt ==
    /\ members \in MemberLists
    /\ reply = TRUE
    /\ atConstruct = members
    /\ client = ""
    /\ pc = "idle"
    /\ baseLen = 0
    /\ start = 0
    /\ i = 0
    /\ nicks = <<>>
    /\ write = <<>>
    /\ flushed = FALSE
    /\ atRead = <<>>
    /\ prev = NoCall

\* the recipient's writer has taken every line of the finished call
Deliver ==
    /\ pc = "done"
    /\ prev' = [client |-> client, nicks |-> nicks, lines |-> write]
    /\ pc' = "idle"
    /\ UNCHANGED <<members, reply, atConstruct, client, baseLen, start, i, nicks,
                   write, flushed, atRead>>

NextRecipients ==
    \/ \E c \in Clients : FormatBegin(c)
    \/ Scan
    \/ Flush
    \/ EndOfNames
    \/ Deliver

SpecRecipients == InitBuilt /\ [][NextRecipients]_vars

\* ------------------------------------------------------------------ reading the output

IsGroup(l) == l.code = "RPL_NAMREPLY"

\* the RPL_NAMREPLY lines of a sequence of lines, in order
Groups(w) == SelectSeq(w, IsGroup)

\* the names of a sequence of lines, in order
RECURSIVE Flatten(_)
Flatten(w) == IF w = <<>> THEN <<>> ELSE Head(w).names \o Flatten(Tail(w))

Terminators(w) == {k \in 1..Len(w) : w[k].code = "RPL_ENDOFNAMES"}

\* every name of names fits a line of client c on its own
EachFits(c, names) ==
    \A k \in 1..Len(names) : RplNamReply(c, <<names[k]>>).len <= MAX_REPLY_LEN

\* the groups sent from inside the loop: all of them but the final one
LoopGroups ==
    IF flushed THEN SubSeq(Groups(write), 1, Len(Groups(write)) - 1)
    ELSE Groups(write)

\* number of names in the first k groups: where group k + 1 begins
Offset(k) == Len(Flatten(SubSeq(Groups(write), 1, k)))

InCall == pc \in {"loop", "end", "done"}

\* least number of groups of a split of names into contiguous non-empty
\* groups whose lines for client c are all within MAX_REPLY_LEN
RECURSIVE MinGroups(_, _)
MinGroups(c, names) ==
    IF names = <<>> THEN 0
    ELSE LET n    == Len(names)
             fits == {k \in 1..n : RplNamReply(c, SubSeq(names, 1, k)).len <= MAX_REPLY_LEN}
             cost == {1 + MinGroups(c, SubSeq(names, k + 1, n)) : k \in fits}
         IN  IF fits = {} THEN n + 1
             ELSE CHOOSE m \in cost : \A x \in cost : m <= x

\* ------------------------------------------------------------------ C1

\* C1: when every member alone fits the budget, every RPL_NAMREPLY line sent,
\* the final one included, is at most MAX_REPLY_LEN bytes long.
C1_GroupLinesWithinBudget ==
    (InCall /\ EachFits(client, nicks)) =>
        \A k \in 1..Len(write) :
            IsGroup(write[k]) => write[k].len <= MAX_REPLY_LEN

\* ------------------------------------------------------------------ C2

\* C2: for a non-empty member list (one member included) the names of the
\* group lines of a finished call, in order, are the member list.
C2_GroupsCoverMembers ==
    (pc = "done" /\ nicks # <<>>) => Flatten(Groups(write)) = nicks

\* ------------------------------------------------------------------ C3

\* C3: a call sends exactly one RPL_ENDOFNAMES line, as its last line; for an
\* empty member list it is the only line.  Before the call is finished no
\* RPL_ENDOFNAMES line has been sent.
C3_OneTerminatorLast ==
    /\ (pc \in {"loop", "end"}) => Terminators(write) = {}
    /\ (pc = "done") =>
          /\ Terminators(write) = {Len(write)}
          /\ write # <<>>
          /\ (nicks = <<>> => Len(write) = 1)

C3_Witness ==
    /\ pc = "done"
    /\ nicks = <<>>
    /\ write = <<RplEndOfNames(client)>>

\* ------------------------------------------------------------------ C4

C5_FewestGroups ==
    (pc = "done" /\ nicks # <<>> /\ EachFits(client, nicks)) =>
        Len(Groups(write)) = MinGroups(client, nicks)

\* ------------------------------------------------------------------ C6

\* C6: two finished calls over the same member list for recipients whose nick
\* lengths differ each use the baseLen of their own recipient, and send the
\* same names in the same order, wherever each puts its group boundaries.
C6_SameCoverageForRecipients ==
    (pc = "done" /\ prev # NoCall /\ prev.nicks = nicks
        /\ NickLen(prev.client) # NickLen(client)) =>
        /\ baseLen = FrameLen + NickLen(client)
        /\ baseLen # FrameLen + NickLen(prev.client)
        /\ Flatten(Groups(prev.lines)) = Flatten(Groups(write))

C6_Witness ==
    /\ pc = "done"
    /\ prev # NoCall
    /\ prev.nicks = nicks
    /\ NickLen(prev.client) # NickLen(client)
    /\ Len(nicks) = 3
    /\ Len(Groups(prev.lines)) = 1
    /\ Len(Groups(write)) = 2
    /\ Flatten(Groups(write)) = nicks

\* ------------------------------------------------------------------ C7

\* positions s..j of nicks (0-based, both included) fill a line exactly
ExactFit(s, j) == baseLen + joinedLen(Slice(nicks, s, j + 1)) = MAX_REPLY_LEN

\* a group line of the call carries both position s and position j
SameGroup(s, j) ==
    \E k \in 1..Len(Groups(write)) :
        /\ Offset(k - 1) <= s
        /\ j < Offset(k)

\* the values start has taken: 0 and the beginning of each later group
Cursors == {Offset(k) : k \in 0..Len(LoopGroups)}

\* C7: when baseLen plus the joined length of the members from the cursor up
\* to and including some member is exactly MAX_REPLY_LEN, that member is sent
\* in the same group line as the members from the cursor.
C7_ExactFitStaysInGroup ==
    (pc = "done") =>
        \A s \in Cursors : \A j \in s..(Len(nicks) - 1) :
            ExactFit(s, j) => SameGroup(s, j)

\* ------------------------------------------------------------------ C8

\* C8: when every member alone fits, each group sent from inside the loop is
\* non-empty, within MAX_REPLY_LEN, and cannot take the next member without
\* exceeding MAX_REPLY_LEN; that next member begins the following group.
C8_LoopGroupsMaximal ==
    (InCall /\ EachFits(client, nicks)) =>
        \A k \in 1..Len(LoopGroups) :
            LET g    == LoopGroups[k]
                next == Offset(k) + 1
            IN  /\ g.names # <<>>
                /\ g.len <= MAX_REPLY_LEN
                /\ g.names = SubSeq(nicks, Offset(k - 1) + 1, Offset(k))
                /\ next <= Len(nicks)
                /\ RplNamReply(client, Append(g.names, nicks[next])).len > MAX_REPLY_LEN
                /\ (pc = "loop" /\ k = Len(LoopGroups)) => start = Offset(k)
                /\ (k < Len(Groups(write))) =>
                       /\ Groups(write)[k + 1].names # <<>>
                       /\ Head(Groups(write)[k + 1].names) = nicks[next]

C8_Witness ==
    /\ pc = "done"
    /\ EachFits(client, nicks)
    /\ Len(LoopGroups) = 2
    /\ flushed
    /\ Len(Groups(write)) = 3

\* ------------------------------------------------------------------ C9

\* C9: a call over any member list, one with a member longer than the whole
\* budget included, reaches the RPL_ENDOFNAMES line; the loop index goes up
\* by one each iteration from 0 to len(nicks), and start never goes down.
C9_FormatTerminates ==
    /\ (pc = "loop") ~> (pc = "done" /\ Terminators(write) = {Len(write)})
    /\ [][(pc = "loop" /\ pc' = "loop" /\ i' # i) =>
              (i' = i + 1 /\ i < Len(nicks) /\ start' >= start)]_vars
    /\ [][(pc # "loop" /\ pc' = "loop") => (i' = 0 /\ start' = 0)]_vars
    /\ [][(pc = "loop" /\ pc' = "end") => (i = Len(nicks) /\ start' = start)]_vars

C9_Witness ==
    /\ pc = "done"
    /\ ~EachFits(client, nicks)
    /\ Len(nicks) = 3
    /\ i = Len(nicks)

\* ------------------------------------------------------------------ C10

\* C10: for a member list of length at least 2 the loop ends with
\* start <= len(nicks) - 2, so the final RplNamReply is sent and its last
\* name is the last member; start is the last index at the end of the loop
\* only for a list of length 1.
C10_FinalFlushRuns ==
    /\ (pc = "loop" /\ Len(nicks) >= 2) => start <= Len(nicks) - 2
    /\ (pc \in {"end", "done"} /\ Len(nicks) >= 2) =>
          /\ start <= Len(nicks) - 2
          /\ flushed
          /\ LET last == Groups(write)[Len(Groups(write))]
             IN  /\ last.names # <<>>
                 /\ last.names[Len(last.names)] = nicks[Len(nicks)]
    /\ (pc \in {"end", "done"} /\ start = Len(nicks) - 1) => Len(nicks) = 1

C10_Witness ==
    /\ pc = "done"
    /\ Len(nicks) = 4
    /\ start = Len(nicks) - 2
    /\ Len(LoopGroups) >= 1
    /\ flushed

====
